---- MODULE Spec2Model ----
(***************************************************************************)
(* Model of yamale/schema/schema.py: class Schema, its includes registry,  *)
(* the transient _root_data binding and the recursive validation engine.   *)
(*                                                                         *)
(* Values.  Data documents are tagged records: None, int and str scalars,  *)
(* maps (an ordered sequence of <<key, value>> pairs, as a dict keeps its  *)
(* insertion order) and lists.  A compiled schema tree is either a static  *)
(* map / static list (the raw schema was a dict / list) or a validator.    *)
(* Map keys are strings; a list index i is written as the string of i (its *)
(* str()), which is all the engine does with it besides indexing.          *)
(* An error message is the sequence of the pieces its format expression    *)
(* joins, e.g. '%s: Required field missing' % path is                      *)
(* <<str(path), ": ", "Required field missing">>.                          *)
(* An optional Python value (strict=None, else_include=None) is <<>> when  *)
(* None and <<v>> when set.                                                *)
(***************************************************************************)
EXTENDS Integers, Sequences, FiniteSets, TLC

VARIABLES
    schema,     \* self._schema of the top-level Schema
    includes,   \* the shared includes registry: include name -> compiled tree
    root_data,  \* _root_data of every Schema instance ("top" and each include)
    hashOrder,  \* iteration order of a set of str keys (fixed per interpreter run)
    pc,         \* per validate call: where the call stands
    cdata,      \* per call: the argument data
    cstrict,    \* per call: the argument strict
    errors,     \* per call: the local list errors of the root _validate frame
    idx,        \* per call: position of the root static loop (line 150)
    item_ret,   \* per call: key and return value of the loop's last _validate_item
    outcome     \* per call: how validate ended

vars == <<schema, includes, root_data, hashOrder, pc, cdata, cstrict, errors,
          idx, item_ret, outcome>>

\* Depth of nested _validate frames at which the interpreter raises
\* RecursionError (sys.getrecursionlimit(), scaled to the model).
RecursionLimit == 12

-----------------------------------------------------------------------------
(* Data documents *)

None == [t |-> "none"]
IntV == [t |-> "int", v |-> "1"]
StrV(s) == [t |-> "str", v |-> s]
MapV(pairs) == [t |-> "map", items |-> pairs]
ListV(values) == [t |-> "list", elems |-> values]
EmptyMap == MapV(<<>>)

\* self._root_data before any validate call on the instance: no such attribute.
Unset == [t |-> "unset"]

Keys == {"a", "b"}

-----------------------------------------------------------------------------
(* Compiled schema trees and validators *)

StaticMap(pairs) == [items |-> pairs, k |-> "smap"]
StaticList(children) == [elems |-> children, k |-> "slist"]
Prim(ty, opt, none) ==
    [k |-> "prim", ty |-> ty, is_optional |-> opt, can_be_none |-> none]
MapL(subs, opt, none) ==
    [k |-> "map", is_optional |-> opt, can_be_none |-> none, validators |-> subs]
ListL(subs, opt, none) ==
    [k |-> "list", is_optional |-> opt, can_be_none |-> none, validators |-> subs]
AnyL(subs, opt, none) ==
    [k |-> "any", is_optional |-> opt, can_be_none |-> none, validators |-> subs]
Include(name, override, opt, none) ==
    [k |-> "include", is_optional |-> opt, can_be_none |-> none,
     include_name |-> name, strict |-> override]
IncludeIf(segs, test, then, else, override, opt, none) ==
    [k |-> "include_if", is_optional |-> opt, can_be_none |-> none,
     strict |-> override, if_path |-> segs, if_include_test |-> test,
     then_include |-> then, else_include |-> else]

\* self.includes.get(name) when the name is not registered
NoSchema == [k |-> "undefined"]

is_static(v) == v.k \in {"smap", "slist"}

-----------------------------------------------------------------------------
(* Results of the engine's functions: a returned error list or a raised     *)
(* exception that no handler of schema.py catches.                          *)

Ok(es) == [exc |-> "none", errs |-> es]
Raise(e) == [exc |-> e, errs |-> <<>>]

\* errors += <call>: the left operand is evaluated first; an exception ends both.
Cat(r1, r2) ==
    IF r1.exc # "none" THEN r1
    ELSE IF r2.exc # "none" THEN r2
    ELSE Ok(r1.errs \o r2.errs)

-----------------------------------------------------------------------------
(* Collaborators of the engine that live outside schema.py: util, DataPath, *)
(* the validators' own validate() and dpath.util.get.                       *)

RECURSIVE JoinWith(_, _)
\* sep.join(parts)
JoinWith(parts, sep) ==
    IF parts = <<>> THEN ""
    ELSE IF Len(parts) = 1 THEN parts[1]
    ELSE parts[1] \o sep \o JoinWith(Tail(parts), sep)

\* str(DataPath): '.'.join(map(str, path))
PathStr(path) == JoinWith(path, ".")

RECURSIVE ReprOf(_)
\* repr(data), which str() of a container applies to its members
ReprOf(d) ==
    CASE d.t = "none" -> "None"
      [] d.t = "int" -> d.v
      [] d.t = "str" -> "'" \o d.v \o "'"
      [] d.t = "map" ->
            "{" \o JoinWith([i \in 1..Len(d.items) |->
                     "'" \o d.items[i][1] \o "': " \o ReprOf(d.items[i][2])], ", ")
                \o "}"
      [] d.t = "list" ->
            "[" \o JoinWith([i \in 1..Len(d.elems) |-> ReprOf(d.elems[i])], ", ")
                \o "]"

\* '%s' % data
StrOf(d) == IF d.t = "str" THEN d.v ELSE ReprOf(d)

\* util.is_map / util.is_list on a data value
is_map(d) == d.t = "map"
is_list(d) == d.t = "list"

\* util.get_keys(x): the keys of a map, the indices of a list, in order;
\* a value that is neither has no key.
get_keys(d) ==
    CASE d.t = "map" -> [i \in 1..Len(d.items) |-> d.items[i][1]]
      [] d.t = "list" -> [i \in 1..Len(d.elems) |-> ToString(i - 1)]
      [] OTHER -> <<>>

\* util.get_keys / util.get_iter on a static schema node
validator_keys(v) ==
    IF v.k = "smap" THEN [i \in 1..Len(v.items) |-> v.items[i][1]]
    ELSE [i \in 1..Len(v.elems) |-> ToString(i - 1)]
validator_child(v, i) == IF v.k = "smap" THEN v.items[i][2] ELSE v.elems[i]

SeqToSet(s) == {s[i] : i \in 1..Len(s)}

\* data[key]: the value, or KeyError / IndexError
Lookup(d, key) ==
    CASE d.t = "map" ->
            IF \E i \in 1..Len(d.items) : d.items[i][1] = key
            THEN [found |-> TRUE,
                  val |-> d.items[CHOOSE i \in 1..Len(d.items) : d.items[i][1] = key][2]]
            ELSE [found |-> FALSE, val |-> None]
      [] d.t = "list" ->
            IF \E i \in 1..Len(d.elems) : ToString(i - 1) = key
            THEN [found |-> TRUE,
                  val |-> d.elems[CHOOSE i \in 1..Len(d.elems) : ToString(i - 1) = key]]
            ELSE [found |-> FALSE, val |-> None]
      [] OTHER -> [found |-> FALSE, val |-> None]

\* validator.validate(data): the validator's own, unprefixed errors.  A
\* primitive checks the value's type; a composite validator (Map, List, Any,
\* Include, IncludeIf) reports nothing at this level.
validator_validate(v, d) ==
    IF v.k = "prim" /\ d.t # v.ty
    THEN << <<"'", StrOf(d), "' is not a ", v.ty, ".">> >>
    ELSE <<>>

RECURSIVE DpathWalk(_, _)
DpathWalk(obj, segs) ==
    IF segs = <<>> THEN [found |-> TRUE, val |-> obj]
    ELSE IF segs[1] = "" THEN DpathWalk(obj, Tail(segs))
    ELSE IF obj.t # "map" THEN [found |-> FALSE, val |-> None]
    ELSE LET lk == Lookup(obj, segs[1])
         IN IF lk.found THEN DpathWalk(lk.val, Tail(segs))
            ELSE [found |-> FALSE, val |-> None]

\* dpath.util.get(obj, glob): the value at the slash-separated path, or
\* KeyError when the chain of segments does not resolve.  The path is held
\* as glob.split('/').
dpath_get(obj, segs) == DpathWalk(obj, segs)

\* the if_path string, and str(DataPath(if_path.split('/'))): the path has
\* the one segment that is the list of the pieces
IfPathString(segs) == JoinWith(segs, "/")
IfPathDataPath(segs) ==
    << "[" \o JoinWith([i \in 1..Len(segs) |-> "'" \o segs[i] \o "'"], ", ") \o "]" >>

-----------------------------------------------------------------------------
(* The validation engine (schema.py lines 69-248).  self is the Schema      *)
(* instance whose method runs: its name and its _root_data.  depth is the   *)
(* number of _validate frames on the stack.                                 *)

\* the Schema instance the registry holds under a name
include_instance(name) == [name |-> name, root |-> root_data[name]]

\* self.includes.get(name)
includes_get(name) == IF name \in DOMAIN includes THEN includes[name] ELSE NoSchema

undefined_include(name) == <<"Include '", name, "' has not been defined.">>

\* strict = strict if validator.strict is None else validator.strict
effective_strict(validator, strict) ==
    IF validator.strict = <<>> THEN strict ELSE validator.strict[1]

\* skip_leaf with the "not" of its isinstance test lost
skip_leaf_only_include_if(validator, data) ==
    /\ data = None
    /\ validator.is_optional
    /\ validator.can_be_none
    /\ validator.k = "include_if"

\* the test that lets _validate return at once (lines 107-111)
skip_leaf(validator, data) ==
    /\ data = None
    /\ validator.is_optional
    /\ validator.can_be_none
    /\ validator.k # "include_if"

_validate_primitive(validator, data, path) ==
    LET errs == validator_validate(validator, data)
    IN [i \in 1..Len(errs) |-> <<PathStr(path), ": ">> \o errs[i]]

\* missing_item with the optional test inverted
missing_item_inverted(validator, path) ==
    IF ~is_static(validator) /\ validator.is_optional
    THEN << <<PathStr(path), ": ", "Required field missing">> >>
    ELSE <<>>

\* _validate_item when data[key] raised and the validator is no IncludeIf
missing_item(validator, path) ==
    IF ~is_static(validator) /\ validator.is_optional
    THEN <<>>
    ELSE << <<PathStr(path), ": ", "Required field missing">> >>

\* the two early returns of _validate_static_map_list; <<>> when it goes on
static_shape_errors(validator, data, path) ==
    IF validator.k = "smap" /\ ~is_map(data)
    THEN IF data = None
         THEN << <<PathStr(path), ": ", "Required field missing">> >>
         ELSE << <<PathStr(path), " : '", StrOf(data), "' is not a map">> >>
    ELSE IF validator.k = "slist" /\ ~is_list(data)
    THEN << <<PathStr(path), " : '", StrOf(data), "' is not a list">> >>
    ELSE <<>>

\* unexpected_keys with the operands of the set difference swapped
unexpected_keys_swapped(validator, data) ==
    LET extra == SeqToSet(validator_keys(validator)) \ SeqToSet(get_keys(data))
    IN IF validator.k = "smap"
       THEN SelectSeq(hashOrder, LAMBDA key : key \in extra)
       ELSE SelectSeq(validator_keys(validator), LAMBDA key : key \in extra)

\* iteration over set(data keys) - set(validator keys): str keys come in the
\* interpreter's hash order, list indices (small ints) ascending
unexpected_keys(validator, data) ==
    LET extra == SeqToSet(get_keys(data)) \ SeqToSet(validator_keys(validator))
    IN IF validator.k = "smap"
       THEN SelectSeq(hashOrder, LAMBDA key : key \in extra)
       ELSE SelectSeq(get_keys(data), LAMBDA key : key \in extra)

\* the strict block of _validate_static_map_list
unexpected_errors(validator, data, path, strict) ==
    IF strict
    THEN LET ks == unexpected_keys(validator, data)
         IN [i \in 1..Len(ks) |->
                <<PathStr(path \o <<ks[i]>>), ": ", "Unexpected element">>]
    ELSE <<>>

\* all_failed that is content with one failed sub-validator
some_failed(sub_errors, validators) == Len(sub_errors) > 0

\* len(sub_errors) == len(validator.validators)
all_failed(sub_errors, validators) == Len(sub_errors) = Len(validators)

RECURSIVE Flatten(_)
\* for err in sub_errors: errors += err
Flatten(lists) ==
    IF lists = <<>> THEN <<>> ELSE lists[1] \o Flatten(Tail(lists))

Raised(rs) == {i \in 1..Len(rs) : rs[i].exc # "none"}
FirstRaised(rs) == rs[CHOOSE i \in Raised(rs) : \A j \in Raised(rs) : i <= j]

\* a loop of errors += <call>: the first exception ends it
CatAll(rs) ==
    IF Raised(rs) # {} THEN FirstRaised(rs)
    ELSE Ok(Flatten([i \in 1..Len(rs) |-> rs[i].errs]))

\* the inner loop of _validate_map_list and of _validate_any over the
\* results rs of the sub-validators, in declaration order
any_of(rs, validators) ==
    IF Raised(rs) # {} THEN FirstRaised(rs)
    ELSE LET sub_errors ==
                 SelectSeq([i \in 1..Len(rs) |-> rs[i].errs], LAMBDA e : e # <<>>)
         IN IF all_failed(sub_errors, validators)
            THEN Ok(Flatten(sub_errors))
            ELSE Ok(<<>>)

RECURSIVE _validate(_, _, _, _, _, _)
RECURSIVE _validate_item(_, _, _, _, _, _, _)
RECURSIVE _validate_static_map_list(_, _, _, _, _, _)
RECURSIVE _validate_map_list(_, _, _, _, _, _)
RECURSIVE _validate_include(_, _, _, _, _, _)
RECURSIVE _validate_include_if(_, _, _, _, _, _)
RECURSIVE _validate_any(_, _, _, _, _, _)

_validate_item(self, validator, data, path, strict, key, depth) ==
    LET p == path \o <<key>>
        item == Lookup(data, key)
    IN IF ~item.found
       THEN IF validator.k # "include_if"
            THEN Ok(missing_item(validator, p))
            ELSE _validate(self, validator, None, p, strict, depth + 1)
       ELSE _validate(self, validator, item.val, p, strict, depth + 1)

_validate(self, validator, data, path, strict, depth) ==
    IF depth > RecursionLimit THEN Raise("RecursionError")
    ELSE IF is_static(validator)
    THEN _validate_static_map_list(self, validator, data, path, strict, depth)
    ELSE IF skip_leaf(validator, data) THEN Ok(<<>>)
    ELSE LET errs == _validate_primitive(validator, data, path)
         IN IF errs # <<>> THEN Ok(errs)
            ELSE Cat(IF validator.k = "include"
                     THEN _validate_include(self, validator, data, path, strict, depth)
                     ELSE Ok(<<>>),
                     CASE validator.k = "include_if" ->
                            _validate_include_if(self, validator, data, path, strict, depth)
                       [] validator.k \in {"map", "list"} ->
                            _validate_map_list(self, validator, data, path, strict, depth)
                       [] validator.k = "any" ->
                            _validate_any(self, validator, data, path, strict, depth)
                       [] OTHER -> Ok(<<>>))

_validate_static_map_list(self, validator, data, path, strict, depth) ==
    IF static_shape_errors(validator, data, path) # <<>>
    THEN Ok(static_shape_errors(validator, data, path))
    ELSE LET keys == validator_keys(validator)
         IN Cat(Ok(unexpected_errors(validator, data, path, strict)),
                CatAll([i \in 1..Len(keys) |->
                          _validate_item(self, validator_child(validator, i), data,
                                         path, strict, keys[i], depth)]))

_validate_map_list(self, validator, data, path, strict, depth) ==
    IF validator.validators = <<>> THEN Ok(<<>>)
    ELSE LET keys == get_keys(data)
             vs == validator.validators
         IN CatAll([i \in 1..Len(keys) |->
                      any_of([j \in 1..Len(vs) |->
                                _validate_item(self, vs[j], data, path, strict,
                                               keys[i], depth)], vs)])

\* _validate_include without its test of the registry's answer: the call
\* include_schema._validate on None raises AttributeError
_validate_include_unchecked(self, validator, data, path, strict, depth) ==
    LET include_schema == includes_get(validator.include_name)
    IN IF include_schema = NoSchema
       THEN Raise("AttributeError")
       ELSE _validate(include_instance(validator.include_name), include_schema,
                      data, path, effective_strict(validator, strict), depth + 1)

_validate_include(self, validator, data, path, strict, depth) ==
    LET include_schema == includes_get(validator.include_name)
    IN IF include_schema = NoSchema
       THEN Ok(<< undefined_include(validator.include_name) >>)
       ELSE _validate(include_instance(validator.include_name), include_schema,
                      data, path, effective_strict(validator, strict), depth + 1)

_validate_include_if(self, validator, data, path, strict, depth) ==
    LET s == effective_strict(validator, strict)
        if_path == IfPathDataPath(validator.if_path)
        got == dpath_get(self.root, validator.if_path)
        if_data == IF got.found THEN got.val ELSE EmptyMap
        if_schema == includes_get(validator.if_include_test)
        cond == _validate(include_instance(validator.if_include_test), if_schema,
                          if_data, if_path, s, depth + 1)
        include_name == IF cond.errs # <<>> THEN validator.else_include[1]
                        ELSE validator.then_include
        include_schema == includes_get(include_name)
    IN IF self.root = Unset THEN Raise("AttributeError")
       ELSE IF ~got.found /\ s
       THEN Ok(<< <<"path '", IfPathString(validator.if_path), "' does not exist.">> >>)
       ELSE IF if_schema = NoSchema
       THEN Ok(<< undefined_include(validator.if_include_test) >>)
       ELSE IF cond.exc # "none" THEN cond
       ELSE IF cond.errs # <<>> /\ validator.else_include = <<>>
       THEN IF s /\ data # None
            THEN Ok(<< <<PathStr(path), ": ", "Unexpected element">> >>)
            ELSE Ok(<<>>)
       ELSE IF include_schema = NoSchema
       THEN Ok(<< undefined_include(include_name) >>)
       ELSE _validate(include_instance(include_name), include_schema, data, path,
                      s, depth + 1)

_validate_any(self, validator, data, path, strict, depth) ==
    IF validator.validators = <<>>
    THEN Ok(<< <<"No validators specified for \"any\".">> >>)
    ELSE LET vs == validator.validators
         IN any_of([j \in 1..Len(vs) |->
                      _validate(self, vs[j], data, path, strict, depth + 1)], vs)

\* lines 61-67: the aggregate error of validate, or its plain return
validate_end(errs, data_name, name) ==
    IF errs # <<>>
    THEN [kind |-> "ValueError",
          msg |-> <<"\nError validating data ", data_name, " with schema ", name>>
                  \o Flatten([i \in 1..Len(errs) |-> <<"\n\t">> \o errs[i]])]
    ELSE [kind |-> "returned", msg |-> <<>>]

-----------------------------------------------------------------------------
(* The inputs the model draws from *)

Names == {"T", "X", "Y"}
Instances == {"top"} \cup Names
Calls == {1, 2}

IntReq == Prim("int", FALSE, TRUE)
StrReq == Prim("str", FALSE, TRUE)
StrOpt == Prim("str", TRUE, TRUE)
\* include_if('/a', 'T', 'X', ...): the test include, then the two branches
IfA(else, strict, opt) == IncludeIf(<<"", "a">>, "T", "X", else, strict, opt, TRUE)

PrimLeaves ==
    {Prim("int", o, n) : o \in BOOLEAN, n \in BOOLEAN} \cup {StrReq}
DynamicLeaves ==
    {MapL(<<>>, FALSE, TRUE), MapL(<<IntReq>>, FALSE, TRUE),
     MapL(<<IntReq, StrReq>>, FALSE, TRUE), MapL(<<IntReq>>, TRUE, TRUE),
     MapL(<<Include("X", <<>>, FALSE, TRUE), IntReq>>, FALSE, TRUE),
     ListL(<<>>, FALSE, TRUE), ListL(<<StrReq, IntReq>>, FALSE, TRUE),
     ListL(<<IntReq>>, TRUE, TRUE),
     AnyL(<<>>, FALSE, TRUE), AnyL(<<IntReq>>, FALSE, TRUE),
     AnyL(<<IntReq, StrReq>>, FALSE, TRUE), AnyL(<<>>, TRUE, TRUE),
     AnyL(<<Include("X", <<>>, FALSE, TRUE), Include("Y", <<>>, FALSE, TRUE)>>,
          FALSE, TRUE)}
IncludeLeaves ==
    {Include("X", st, FALSE, TRUE) : st \in {<<>>, <<TRUE>>, <<FALSE>>}}
    \cup {Include("X", <<>>, TRUE, TRUE), Include("X", <<>>, TRUE, FALSE),
          Include("Y", <<>>, FALSE, TRUE)}
IncludeIfLeaves ==
    {IfA(<<>>, <<>>, FALSE), IfA(<<"Y">>, <<>>, FALSE), IfA(<<>>, <<TRUE>>, FALSE),
     IfA(<<>>, <<>>, TRUE), IfA(<<"Y">>, <<FALSE>>, TRUE),
     IncludeIf(<<"", "b">>, "T", "Y", <<"X">>, <<>>, FALSE, TRUE)}
Leaves == PrimLeaves \cup DynamicLeaves \cup IncludeLeaves \cup IncludeIfLeaves

\* validators declared under a key of a static map
ChildLeaves ==
    {IntReq, StrOpt, Prim("int", TRUE, FALSE),
     MapL(<<IntReq>>, FALSE, TRUE), ListL(<<>>, FALSE, TRUE),
     AnyL(<<IntReq, StrReq>>, FALSE, TRUE),
     Include("X", <<>>, FALSE, TRUE), Include("X", <<TRUE>>, FALSE, TRUE),
     Include("Y", <<>>, TRUE, TRUE),
     IfA(<<>>, <<>>, FALSE), IfA(<<"Y">>, <<>>, FALSE), IfA(<<>>, <<>>, TRUE),
     StaticMap(<< <<"b", IntReq>> >>), StaticList(<<IntReq>>)}

StaticTrees ==
    {StaticMap(<<>>), StaticList(<<>>), StaticList(<<IntReq, StrReq>>),
     StaticMap(<< <<"a", StrReq>>, <<"b", IfA(<<"Y">>, <<>>, FALSE)>> >>),
     StaticMap(<< <<"b", Include("X", <<>>, FALSE, TRUE)>>, <<"a", IntReq>> >>)}
    \cup {StaticMap(<< <<"a", v>> >>) : v \in ChildLeaves}
    \cup {StaticList(<<v>>) : v \in {IntReq, Include("X", <<>>, FALSE, TRUE),
                                     IfA(<<>>, <<>>, FALSE)}}

TopTrees == Leaves \cup StaticTrees

\* trees registered as includes, by name
IncTrees(n) ==
    CASE n = "T" -> {StrReq}
      [] n = "Y" -> {IntReq, StrReq, Include("X", <<>>, FALSE, TRUE)}
      [] OTHER ->
            {IntReq, StrReq,
             StaticMap(<< <<"a", IntReq>>, <<"b", Include("X", <<>>, TRUE, TRUE)>> >>),
             Include("X", <<>>, FALSE, TRUE), Include("Y", <<>>, FALSE, TRUE),
             AnyL(<<Include("X", <<>>, FALSE, TRUE), IntReq>>, FALSE, TRUE),
             IncludeIf(<<"", "a">>, "T", "Y", <<"T">>, <<>>, FALSE, TRUE)}

Scalars == {None, IntV, StrV("x")}
Data ==
    Scalars
    \cup {MapV(<<>>), ListV(<<>>), ListV(<<IntV, StrV("x")>>),
          ListV(<<None, IntV, IntV>>)}
    \cup {MapV(<< <<"a", v>> >>) : v \in Scalars}
    \cup {MapV(<< <<"b", IntV>> >>),
          MapV(<< <<"a", IntV>>, <<"b", IntV>> >>),
          MapV(<< <<"b", StrV("x")>>, <<"a", StrV("x")>> >>),
          MapV(<< <<"a", StrV("x")>>, <<"b", None>> >>),
          MapV(<< <<"a", MapV(<< <<"a", IntV>> >>)>> >>),
          MapV(<< <<"a", IntV>>, <<"b", MapV(<< <<"a", IntV>> >>)>> >>),
          MapV(<< <<"a", ListV(<<IntV>>)>>, <<"b", IntV>> >>)}

Orders == {<<"a", "b">>, <<"b", "a">>}

\* the arguments data_name of validate and name of Schema()
data_name(c) == "data" \o ToString(c)
schema_name == "schema"

-----------------------------------------------------------------------------
(* State machine *)

\* a Schema built from one of trees, with one of registries as its includes
\* and no validate call made yet
Built(trees, registries) ==
    /\ schema \in trees
    /\ includes \in registries
    /\ root_data = [i \in Instances |-> Unset]
    /\ hashOrder \in Orders
    /\ pc = [c \in Calls |-> "idle"]
    /\ cdata = [c \in Calls |-> None]
    /\ cstrict = [c \in Calls |-> FALSE]
    /\ errors = [c \in Calls |-> <<>>]
    /\ idx = [c \in Calls |-> 0]
    /\ item_ret = [c \in Calls |-> [key |-> "", ret |-> Ok(<<>>)]]
    /\ outcome = [c \in Calls |-> [kind |-> "none", msg |-> <<>>]]

\* Schema(schema_dict): the includes registry starts empty
Init == Built(TopTrees, {[n \in Names |-> NoSchema]})

\* Schema.add_include for one entry of type_dict: a new Schema, compiled
\* from custom_type, replaces whatever the registry held under the name.
\* Includes are added before the first validate call.
add_include(include_name, custom_type) ==
    /\ \A c \in Calls : pc[c] = "idle"
    /\ includes' = [includes EXCEPT ![include_name] = custom_type]
    /\ root_data' = [root_data EXCEPT ![include_name] = Unset]
    /\ UNCHANGED <<schema, hashOrder, pc, cdata, cstrict, errors, idx, item_ret,
                   outcome>>

top_instance == [name |-> "top", root |-> root_data["top"]]

\* validate, lines 56-58: path = DataPath(); self._root_data = data
validate_begin(c, data, strict) ==
    /\ pc[c] \in {"idle", "done"}
    /\ root_data' = [root_data EXCEPT !["top"] = data]
    /\ cdata' = [cdata EXCEPT ![c] = data]
    /\ cstrict' = [cstrict EXCEPT ![c] = strict]
    /\ errors' = [errors EXCEPT ![c] = <<>>]
    /\ idx' = [idx EXCEPT ![c] = 0]
    /\ item_ret' = [item_ret EXCEPT ![c] = [key |-> "", ret |-> Ok(<<>>)]]
    /\ outcome' = [outcome EXCEPT ![c] = [kind |-> "none", msg |-> <<>>]]
    /\ pc' = [pc EXCEPT ![c] = "validate"]
    /\ UNCHANGED <<schema, includes, hashOrder>>

\* line 59 on a static root: _validate -> _validate_static_map_list up to
\* its loop (lines 99-103, 133-148)
static_begin(c) ==
    /\ pc[c] = "validate"
    /\ is_static(schema)
    /\ LET shape == static_shape_errors(schema, cdata[c], <<>>)
       IN IF shape # <<>>
          THEN /\ errors' = [errors EXCEPT ![c] = shape]
               /\ pc' = [pc EXCEPT ![c] = "end"]
               /\ idx' = idx
          ELSE /\ errors' = [errors EXCEPT ![c] =
                                unexpected_errors(schema, cdata[c], <<>>, cstrict[c])]
               /\ idx' = [idx EXCEPT ![c] = 1]
               /\ pc' = [pc EXCEPT ![c] =
                            IF validator_keys(schema) = <<>> THEN "end" ELSE "items"]
    /\ UNCHANGED <<schema, includes, root_data, hashOrder, cdata, cstrict, item_ret,
                   outcome>>

\* one round of the loop of lines 150-155 in the root frame
static_item(c) ==
    /\ pc[c] = "items"
    /\ LET key == validator_keys(schema)[idx[c]]
           r == _validate_item(top_instance, validator_child(schema, idx[c]),
                               cdata[c], <<>>, cstrict[c], key, 1)
       IN /\ item_ret' = [item_ret EXCEPT ![c] = [key |-> key, ret |-> r]]
          /\ IF r.exc # "none"
             THEN /\ outcome' = [outcome EXCEPT ![c] = [kind |-> r.exc, msg |-> <<>>]]
                  /\ pc' = [pc EXCEPT ![c] = "done"]
                  /\ UNCHANGED <<errors, idx>>
             ELSE /\ errors' = [errors EXCEPT ![c] = errors[c] \o r.errs]
                  /\ idx' = [idx EXCEPT ![c] = idx[c] + 1]
                  /\ pc' = [pc EXCEPT ![c] =
                               IF idx[c] = Len(validator_keys(schema))
                               THEN "end" ELSE "items"]
                  /\ outcome' = outcome
    /\ UNCHANGED <<schema, includes, root_data, hashOrder, cdata, cstrict>>

\* line 59 on a root that is a validator: _validate, lines 105-130
leaf_validate(c) ==
    /\ pc[c] = "validate"
    /\ ~is_static(schema)
    /\ LET r == _validate(top_instance, schema, cdata[c], <<>>, cstrict[c], 1)
       IN IF r.exc # "none"
          THEN /\ outcome' = [outcome EXCEPT ![c] = [kind |-> r.exc, msg |-> <<>>]]
               /\ pc' = [pc EXCEPT ![c] = "done"]
               /\ errors' = errors
          ELSE /\ errors' = [errors EXCEPT ![c] = r.errs]
               /\ pc' = [pc EXCEPT ![c] = "end"]
               /\ outcome' = outcome
    /\ UNCHANGED <<schema, includes, root_data, hashOrder, cdata, cstrict, idx,
                   item_ret>>

\* validate, lines 61-67
validate_return(c) ==
    /\ pc[c] = "end"
    /\ outcome' = [outcome EXCEPT ![c] =
                      validate_end(errors[c], data_name(c), schema_name)]
    /\ pc' = [pc EXCEPT ![c] = "done"]
    /\ UNCHANGED <<schema, includes, root_data, hashOrder, cdata, cstrict, errors,
                   idx, item_ret>>

\* One caller: a Schema is built, includes are added and validate is called.
Next ==
    \/ \E n \in Names : \E t \in IncTrees(n) : add_include(n, t)
    \/ \E d \in Data, s \in BOOLEAN : pc[1] = "idle" /\ validate_begin(1, d, s)
    \/ static_begin(1)
    \/ static_item(1)
    \/ leaf_validate(1)
    \/ validate_return(1)

Spec == Init /\ [][Next]_vars

-----------------------------------------------------------------------------
(* Concurrent callers: two validate calls on the one Schema instance, each  *)
(* a thread that may be preempted between any two of its steps.  The trees  *)
(* hold at most one IncludeIf under a key, so a step reads _root_data once. *)

ConcTrees ==
    {StaticMap(<< <<"a", StrReq>>, <<"b", IfA(<<"Y">>, <<>>, FALSE)>> >>),
     StaticMap(<< <<"a", IfA(<<>>, <<>>, TRUE)>>, <<"b", IntReq>> >>),
     IfA(<<"Y">>, <<>>, FALSE), IfA(<<>>, <<>>, FALSE)}
ConcData ==
    {MapV(<< <<"a", IntV>>, <<"b", IntV>> >>),
     MapV(<< <<"b", StrV("x")>>, <<"a", StrV("x")>> >>),
     MapV(<< <<"a", StrV("x")>>, <<"b", None>> >>)}

\* the includes were added before the threads start: the test include
\* accepts a str, then_include an int, else_include a str
InitConc == Built(ConcTrees, {[n \in Names |-> IF n = "X" THEN IntReq ELSE StrReq]})

NextConc ==
    \/ \E c \in Calls, d \in ConcData, s \in BOOLEAN : validate_begin(c, d, s)
    \/ \E c \in Calls : static_begin(c)
    \/ \E c \in Calls : static_item(c)
    \/ \E c \in Calls : leaf_validate(c)
    \/ \E c \in Calls : validate_return(c)

SpecConc == InitConc /\ [][NextConc]_vars

-----------------------------------------------------------------------------
(* Vocabulary of the properties *)

\* validate(data, data_name(c), strict) run from start to end on a Schema
\* whose tree is tree and whose _root_data stays bound to root
whole_validate(tree, root, data, strict, c) ==
    LET r == _validate([name |-> "top", root |-> root], tree, data, <<>>, strict, 1)
    IN IF r.exc # "none" THEN [kind |-> r.exc, msg |-> <<>>]
       ELSE validate_end(r.errs, data_name(c), schema_name)

registered(name) == includes_get(name) # NoSchema

\* the root frame has produced its error list
Returned(c) == pc[c] = "end" \/ (pc[c] = "done" /\ outcome[c].kind \in {"returned", "ValueError"})

LeafRun(c) == Returned(c) /\ ~is_static(schema)

CountOf(errs, e) == Cardinality({i \in 1..Len(errs) : errs[i] = e})

-----------------------------------------------------------------------------
(* C1: include indirection against inlining *)

\* Include("X") as written: no strict override, required, X registered
plain_include(v) ==
    /\ v.k = "include"
    /\ v.strict = <<>>
    /\ ~v.is_optional
    /\ registered(v.include_name)

\* the trees got from the schema by putting the included tree itself at one
\* position that holds a plain Include and at which document d has a value
Inlined(d) ==
    CASE schema.k = "smap" ->
            {StaticMap([schema.items EXCEPT
                          ![i] = <<schema.items[i][1],
                                   includes_get(schema.items[i][2].include_name)>>]) :
               i \in {j \in 1..Len(schema.items) :
                        /\ plain_include(schema.items[j][2])
                        /\ Lookup(d, schema.items[j][1]).found}}
      [] schema.k = "slist" ->
            {StaticList([schema.elems EXCEPT
                           ![i] = includes_get(schema.elems[i].include_name)]) :
               i \in {j \in 1..Len(schema.elems) :
                        /\ plain_include(schema.elems[j])
                        /\ Lookup(d, ToString(j - 1)).found}}
      [] OTHER ->
            IF plain_include(schema) THEN {includes_get(schema.include_name)} ELSE {}

\* C1: a finished validate call on a schema that holds Include("X") (no
\* strict override, "X" registered) at a position where the document has a
\* value ends exactly as the same call on the schema with X's tree placed at
\* that position - the same ordered error list, whatever X's tree is, also
\* when it holds an IncludeIf, whose if_path is looked up in the root
\* document of the call.
C1_IncludeEqualsInline ==
    \A c \in Calls :
        pc[c] = "done" =>
            \A t \in Inlined(cdata[c]) :
                outcome[c] = whole_validate(t, cdata[c], cdata[c], cstrict[c], c)

-----------------------------------------------------------------------------
(* C3: the path prefix of error strings *)

Segments == Keys \cup {"0", "1", "2"}
PathStrings ==
    {PathStr(p) : p \in UNION {[1..n -> Segments] : n \in 0..3}}

\* the message starts with str(path) for a path of the document, followed
\* by the ':' of the two formats of schema.py
Prefixed(e) == Len(e) >= 2 /\ e[1] \in PathStrings /\ e[2] \in {": ", " : '"}

\* C3: every error string of the list _validate returns starts with the
\* path at which it occurred.
C3_ErrorsPrefixed ==
    \A c \in Calls : \A i \in 1..Len(errors[c]) : Prefixed(errors[c][i])

-----------------------------------------------------------------------------
(* C8: branch selection of IncludeIf *)

\* the IncludeIf validated at the root path against the root document:
\* the root validator itself, or the tree of the include the root names
root_include_if ==
    IF schema.k = "include_if" THEN <<schema>>
    ELSE IF plain_include(schema) /\ includes_get(schema.include_name).k = "include_if"
    THEN <<includes_get(schema.include_name)>>
    ELSE <<>>

\* the include the claim selects for IncludeIf v on root document d
selected_branch(v, d, strict) ==
    LET s == effective_strict(v, strict)
        cond == _validate(include_instance(v.if_include_test),
                          includes_get(v.if_include_test),
                          dpath_get(d, v.if_path).val, IfPathDataPath(v.if_path), s, 2)
    IN IF cond.errs = <<>> THEN v.then_include ELSE v.else_include[1]

\* C8: when if_path resolves in the root document and the test, then and
\* else includes are registered, a validate call whose root-path validator
\* is an IncludeIf ends as validating the data against then_include does if
\* the test schema accepts the value at if_path, and as validating against
\* else_include does otherwise.
C8_BranchSelection ==
    \A c \in Calls :
        (/\ pc[c] = "done"
         /\ cdata[c] # None
         /\ root_include_if # <<>>
         /\ dpath_get(cdata[c], root_include_if[1].if_path).found
         /\ registered(root_include_if[1].if_include_test)
         /\ registered(root_include_if[1].then_include)
         /\ root_include_if[1].else_include # <<>>
         /\ registered(root_include_if[1].else_include[1])) =>
            outcome[c] =
                whole_validate(
                    includes_get(selected_branch(root_include_if[1], cdata[c], cstrict[c])),
                    cdata[c], cdata[c],
                    effective_strict(root_include_if[1], cstrict[c]), c)

-----------------------------------------------------------------------------
(* C9: the root-data binding under concurrent calls *)

\* C9: whatever the interleaving of two validate calls on one Schema, a
\* finished call ends as it does when it runs alone, its IncludeIf lookups
\* made in its own document.
C9_CallsIsolated ==
    \A c \in Calls :
        pc[c] = "done" =>
            outcome[c] = whole_validate(schema, cdata[c], cdata[c], cstrict[c], c)

-----------------------------------------------------------------------------
(* C10: termination *)

\* C10: every validate call ends by returning or by raising the aggregate
\* error, whatever the includes refer to; its recursion never exhausts the
\* interpreter's stack.
C10_Terminates ==
    \A c \in Calls :
        pc[c] = "done" => outcome[c].kind \in {"returned", "ValueError", "AttributeError"}

-----------------------------------------------------------------------------
(* The root static loop: the validator and the value of its last round *)

ItemSeen(c) == item_ret[c].key # ""
item_validator(c) ==
    validator_child(schema,
        CHOOSE i \in 1..Len(validator_keys(schema)) :
            validator_keys(schema)[i] = item_ret[c].key)
item_value(c) == Lookup(cdata[c], item_ret[c].key)

required_missing(key) == <<key, ": ", "Required field missing">>

-----------------------------------------------------------------------------
(* C2: the error of an unregistered include *)

\* what validating value d against Include v of an unregistered name returns
unregistered_result(v, d) ==
    IF d = None /\ v.is_optional /\ v.can_be_none
    THEN <<>>
    ELSE << <<"Include '", v.include_name, "' has not been defined.">> >>

\* C2 (as amended): _validate of a leaf Include("X") whose name is not
\* registered returns exactly ["Include 'X' has not been defined."] for every
\* data value, except that None with an optional and nullable leaf is
\* skipped with no error; an Include declared under a key the data lacks is
\* not validated: "Required field missing" if it is required, nothing if it
\* is optional.
C2_UnregisteredInclude ==
    \A c \in Calls :
        /\ (/\ pc[c] \in {"end", "done"}
            /\ schema.k = "include"
            /\ ~registered(schema.include_name)) =>
                /\ errors[c] = unregistered_result(schema, cdata[c])
                /\ pc[c] = "done" => outcome[c].kind \in {"returned", "ValueError"}
        /\ (/\ is_static(schema)
            /\ ItemSeen(c)
            /\ item_validator(c).k = "include"
            /\ ~registered(item_validator(c).include_name)) =>
                item_ret[c].ret =
                    Ok(IF item_value(c).found
                       THEN unregistered_result(item_validator(c), item_value(c).val)
                       ELSE IF item_validator(c).is_optional THEN <<>>
                       ELSE << required_missing(item_ret[c].key) >>)

\* a value reached an Include of an unregistered name and the call reported it
C2_Witness ==
    \E c \in Calls :
        /\ pc[c] = "done"
        /\ schema.k = "include"
        /\ ~registered(schema.include_name)
        /\ cdata[c] = IntV
        /\ outcome[c].kind = "ValueError"

HasError(errs, e) == \E i \in 1..Len(errs) : errs[i] = e

\* C2: the error list returned for a leaf Include("X") whose name is not
\* registered holds "Include 'X' has not been defined." whatever the data:
\* None, an optional and nullable leaf, a key the data lacks.
C2_Original ==
    \A c \in Calls :
        /\ (/\ pc[c] \in {"end", "done"}
            /\ schema.k = "include"
            /\ ~registered(schema.include_name)) =>
                HasError(errors[c], undefined_include(schema.include_name))
        /\ (/\ is_static(schema)
            /\ ItemSeen(c)
            /\ item_validator(c).k = "include"
            /\ ~registered(item_validator(c).include_name)) =>
                HasError(item_ret[c].ret.errs,
                         undefined_include(item_validator(c).include_name))

-----------------------------------------------------------------------------
(* C4: required fields of a static map *)

\* the root loop has just fetched a key the map data lacks
MissingKey(c) ==
    /\ schema.k = "smap"
    /\ is_map(cdata[c])
    /\ ItemSeen(c)
    /\ ~item_value(c).found

non_optional(v) == is_static(v) \/ ~v.is_optional

\* the error list of the root frame ends with what the last round returned
Appended(c) ==
    (pc[c] \in {"items", "end"}) =>
        /\ Len(errors[c]) >= Len(item_ret[c].ret.errs)
        /\ SubSeq(errors[c], Len(errors[c]) - Len(item_ret[c].ret.errs) + 1,
                  Len(errors[c])) = item_ret[c].ret.errs

\* C4 (as amended): for a static map schema and map data, a schema key that
\* the data lacks and whose validator is non-optional and is not an IncludeIf
\* yields exactly the one error "<key path>: Required field missing", under
\* both strict settings; a key present with a value its validator accepts
\* yields no error.  (An IncludeIf under a missing key is validated against
\* None instead.)
C4_RequiredField ==
    \A c \in Calls :
        /\ (/\ MissingKey(c)
            /\ non_optional(item_validator(c))
            /\ item_validator(c).k # "include_if") =>
                /\ item_ret[c].ret = Ok(<< required_missing(item_ret[c].key) >>)
                /\ Appended(c)
        /\ (/\ schema.k = "smap"
            /\ is_map(cdata[c])
            /\ ItemSeen(c)
            /\ item_value(c).found
            /\ _validate(top_instance, item_validator(c), item_value(c).val, <<>>,
                         cstrict[c], 1) = Ok(<<>>)) =>
                /\ item_ret[c].ret = Ok(<<>>)
                /\ Appended(c)

\* a required Include under a key the data lacks, in a strict call
C4_Witness ==
    \E c \in Calls :
        /\ MissingKey(c)
        /\ cstrict[c]
        /\ item_validator(c).k = "include"
        /\ ~item_validator(c).is_optional
        /\ pc[c] = "done"
        /\ outcome[c].kind = "ValueError"

\* C4: the same for every validator kind declared at the key, IncludeIf
\* among them.
C4_Original ==
    \A c \in Calls :
        (MissingKey(c) /\ non_optional(item_validator(c))) =>
            item_ret[c].ret = Ok(<< required_missing(item_ret[c].key) >>)

-----------------------------------------------------------------------------
(* C5: optional and nullable leaves against None *)

\* _validate has run on a root leaf that is optional and nullable, data None
SkipCase(c) ==
    /\ pc[c] \in {"end", "done"}
    /\ ~is_static(schema)
    /\ cdata[c] = None
    /\ schema.is_optional
    /\ schema.can_be_none

\* the root loop has validated None under a key whose leaf is optional and
\* nullable
SkipItem(c) ==
    /\ is_static(schema)
    /\ ItemSeen(c)
    /\ item_value(c).found
    /\ item_value(c).val = None
    /\ ~is_static(item_validator(c))
    /\ item_validator(c).is_optional
    /\ item_validator(c).can_be_none

\* C5 (as amended): _validate of a leaf with is_optional and can_be_none
\* against None returns no error, whatever the registry and the strict flag,
\* for every kind of leaf except IncludeIf, which is validated all the same.
C5_OptionalNullableSkip ==
    \A c \in Calls :
        /\ (SkipCase(c) /\ schema.k # "include_if") =>
                /\ errors[c] = <<>>
                /\ pc[c] = "done" => outcome[c].kind = "returned"
        /\ (SkipItem(c) /\ item_validator(c).k # "include_if") =>
                item_ret[c].ret = Ok(<<>>)

\* an optional, nullable Include of an unregistered name met None in a
\* strict call, and the call returned
C5_Witness ==
    \E c \in Calls :
        /\ SkipCase(c)
        /\ schema.k = "include"
        /\ ~registered(schema.include_name)
        /\ cstrict[c]
        /\ pc[c] = "done"

\* C5: the same for every kind of leaf, IncludeIf among them.
C5_Original ==
    \A c \in Calls :
        /\ SkipCase(c) =>
                /\ errors[c] = <<>>
                /\ pc[c] = "done" => outcome[c].kind = "returned"
        /\ SkipItem(c) => item_ret[c].ret = Ok(<<>>)

-----------------------------------------------------------------------------
(* C6: unexpected elements of a static node *)

\* the root frame is past the strict block of _validate_static_map_list on
\* data of the node's shape, and has not raised
StaticRun(c) ==
    /\ is_static(schema)
    /\ static_shape_errors(schema, cdata[c], <<>>) = <<>>
    /\ pc[c] = "items" \/ Returned(c)

unexpected_at(key) == <<key, ": ", "Unexpected element">>

RECURSIVE has_override(_)
\* some Include or IncludeIf of the tree sets its own strict
has_override(v) ==
    CASE v.k \in {"include", "include_if"} -> v.strict # <<>>
      [] v.k = "smap" -> \E i \in 1..Len(v.items) : has_override(v.items[i][2])
      [] v.k = "slist" -> \E i \in 1..Len(v.elems) : has_override(v.elems[i])
      [] v.k \in {"map", "list", "any"} ->
            \E i \in 1..Len(v.validators) : has_override(v.validators[i])
      [] OTHER -> FALSE

no_override ==
    /\ ~has_override(schema)
    /\ \A n \in Names : ~has_override(includes_get(n))

\* C6: validating a map (list) against a static map (list) node, a strict
\* call yields exactly one "Unexpected element" error at the path of each
\* data key (index) that is no schema key (index); a lenient call on a
\* schema without any include strict override yields no "Unexpected
\* element" error at all.
C6_UnexpectedElement ==
    \A c \in Calls :
        StaticRun(c) =>
            /\ cstrict[c] =>
                \A key \in SeqToSet(get_keys(cdata[c])) \ SeqToSet(validator_keys(schema)) :
                    CountOf(errors[c], unexpected_at(key)) = 1
            /\ (~cstrict[c] /\ no_override) =>
                \A i \in 1..Len(errors[c]) :
                    errors[c][i][Len(errors[c][i])] # "Unexpected element"

\* the strict call of {a: str(required=False)} on {b: 'x', a: 'x'} ended with
\* the one error of key b
C6_Witness ==
    \E c \in Calls :
        /\ pc[c] = "done"
        /\ cstrict[c]
        /\ schema = StaticMap(<< <<"a", StrOpt>> >>)
        /\ cdata[c] = MapV(<< <<"b", StrV("x")>>, <<"a", StrV("x")>> >>)
        /\ errors[c] = << unexpected_at("b") >>
        /\ outcome[c].kind = "ValueError"

-----------------------------------------------------------------------------
(* C7: any-of over the sub-validators *)

\* what one key (or the value of an Any) adds: nothing if a sub-validator's
\* recursive check of value d at path returns no error, else all their error
\* lists in declaration order
contribution(c, vs, d, path) ==
    LET sub == [j \in 1..Len(vs) |->
                  _validate([name |-> "top", root |-> cdata[c]], vs[j], d, path,
                            cstrict[c], 2).errs]
    IN IF \E j \in 1..Len(vs) : sub[j] = <<>> THEN <<>> ELSE Flatten(sub)

\* _validate has run the dynamic checks of a root Map, List or Any
DynamicRun(c) ==
    /\ LeafRun(c)
    /\ schema.k \in {"map", "list", "any"}
    /\ ~(cdata[c] = None /\ schema.is_optional /\ schema.can_be_none)

\* C7: a dynamic Map or List with sub-validators returns, key by key in the
\* data's order, nothing for a key one sub-validator accepts and the
\* concatenation of all sub-validators' errors, in declaration order, for a
\* key none accepts; an Any with sub-validators does the same for the value;
\* a Map or List without sub-validators returns no error for any data.
C7_AnyOf ==
    \A c \in Calls :
        DynamicRun(c) =>
            LET keys == get_keys(cdata[c])
                vs == schema.validators
            IN /\ (schema.k \in {"map", "list"} /\ vs # <<>>) =>
                    errors[c] =
                        Flatten([i \in 1..Len(keys) |->
                                   contribution(c, vs, Lookup(cdata[c], keys[i]).val,
                                                <<keys[i]>>)])
               /\ (schema.k = "any" /\ vs # <<>>) =>
                    errors[c] = contribution(c, vs, cdata[c], <<>>)
               /\ (schema.k \in {"map", "list"} /\ vs = <<>>) => errors[c] = <<>>

\* map(int(), str()) on {a: 'x', b: None}: key a is accepted by str(), key b
\* by neither, and the call ended with the two errors of key b
C7_Witness ==
    \E c \in Calls :
        /\ pc[c] = "done"
        /\ schema = MapL(<<IntReq, StrReq>>, FALSE, TRUE)
        /\ cdata[c] = MapV(<< <<"a", StrV("x")>>, <<"b", None>> >>)
        /\ errors[c] = << <<"b", ": ", "'", "None", "' is not a ", "int", ".">>,
                          <<"b", ": ", "'", "None", "' is not a ", "str", ".">> >>
        /\ outcome[c].kind = "ValueError"

====
